---- MODULE Spec2Model ----
(***************************************************************************)
(* State-machine model of the mock back end of the file-sharing service,   *)
(* src/file-sharing-fe-web/mockbe/server.py: the in-memory stores users,   *)
(* sessions, totp_temp_sessions, files and policy, and one action per      *)
(* Flask handler.  A handler action runs the whole handler as one step     *)
(* (one request at a time); login_totp and delete_file are also modelled   *)
(* statement by statement, for two requests served at the same time.       *)
(***************************************************************************)
EXTENDS Integers, Sequences, FiniteSets, TLC

VARIABLES
    users,               \* users[email] = record          (server.py:27)
    sessions,            \* sessions[token] = email        (server.py:59)
    totp_temp_sessions,  \* totp_temp_sessions[key] = email (server.py:63)
    files,               \* files[file_id] = metadata      (server.py:71)
    policy,              \* admin policy                   (server.py:520)
    minted,              \* number of uuid4 tokens drawn by create_token so far
    now,                 \* the wall clock read by datetime.now
    response,            \* the handler's HTTP response to the last request
    inflight,            \* inflight[r]: the position and the locals of request r
                         \* while its handler runs step by step
    uploads              \* number of uuid4 file ids drawn by upload_file so far

vars == <<users, sessions, totp_temp_sessions, files, policy, minted, now, response,
          inflight, uploads>>

-----------------------------------------------------------------------------
(* Bounds of the model. *)

\* create_token is called at most MaxTokens times in a run.
MaxTokens == 2

\* The clock runs over 0..MaxTime.
MaxTime == 2

-----------------------------------------------------------------------------
(* Values. *)

\* Python None, a missing JSON field, a missing header and the empty string:
\* the handlers only test them with "not x", which is true of all of them.
None == ""

MOCK_TOTP_CODE == "123456"

MOCK_SECRET == "MOCK-SECRET-SECRET"

\* change_password: len(new_password) < 6
MinNewPasswordLen == 6

Jitensha == "jitensha@hcmut.edu.vn"

Eenose == "eenose@hcmut.edu.vn"

Bigbluewhale == "bigbluewhale@hcmut.edu.vn"

\* An address no seeded user has.
Nobody == "nobody@hcmut.edu.vn"

\* The values uuid4 yields, in the order create_token draws them: a value
\* drawn once is never drawn again.
TokenNames == <<"token-1", "token-2", "token-3", "token-4", "token-5">>

Tokens == {TokenNames[i] : i \in 1..MaxTokens}

TempNames == <<"temp-1", "temp-2", "temp-3", "temp-4", "temp-5", "temp-6">>

\* Request inputs.
Emails == {Jitensha, Eenose, Nobody, None}

Passwords == {"jitensha@123", "eenose@123", "newpass1", None}

NewPasswords == {"newpass1", "short", None}

\* The (oldPassword, totpCode, newPassword) bodies sent to change_password in
\* the login state machine: each seeded password as proof, the code as proof,
\* and no proof with a short password.
ChangeBodies ==
    {<<"jitensha@123", None, "newpass1">>, <<"eenose@123", None, "newpass1">>,
     <<None, MOCK_TOTP_CODE, "newpass1">>, <<None, None, "short">>}

Codes == {MOCK_TOTP_CODE, "000000", None}

\* What a client may put after "Bearer ": a token, an e-mail address (the
\* key of a pending challenge), or no usable header at all.
Bearers == Tokens \cup {Jitensha, Eenose, None}

-----------------------------------------------------------------------------
(* Python dict operations. *)

Has(d, k) == k \in DOMAIN d

Get(d, k) == IF k \in DOMAIN d THEN d[k] ELSE None

Put(d, k, v) == [x \in (DOMAIN d) \cup {k} |-> IF x = k THEN v ELSE d[x]]

Del(d, k) == [x \in (DOMAIN d) \ {k} |-> d[x]]

EmptyDict == [x \in {} |-> None]

\* "not x" on a string or None.
Falsy(x) == x = None

-----------------------------------------------------------------------------
(* Helpers of server.py. *)

\* Variant: a token value is handed out again once it is free.
create_token_reused ==
    TokenNames[CHOOSE i \in 1..Len(TokenNames) :
                 /\ ~Has(sessions, TokenNames[i])
                 /\ \A j \in 1..(i - 1) : Has(sessions, TokenNames[j])]

\* create_token: "token-" + uuid4().hex, a value never produced before.
create_token == TokenNames[minted + 1]

\* Variant: a pending challenge's key is accepted as a bearer token.
get_current_user_or_pending(bearer) ==
    IF Falsy(bearer) THEN None
    ELSE LET email == IF Has(sessions, bearer) THEN sessions[bearer]
                      ELSE Get(totp_temp_sessions, bearer) IN
         IF Falsy(email) THEN None
         ELSE IF ~Has(users, email) THEN None
         ELSE email

\* get_current_user, given what follows "Bearer " (None: no such header).
\* Returns the e-mail that keys the user record, or None.
get_current_user(bearer) ==
    IF Falsy(bearer) THEN None
    ELSE LET email == Get(sessions, bearer) IN
         IF Falsy(email) THEN None
         ELSE IF ~Has(users, email) THEN None
         ELSE email

\* Variant: the password is not compared.
PasswordMismatch_unchecked(user, password) == FALSE

\* login: user["password"] != password
PasswordMismatch(user, password) == user.password # password

\* Variant: the second step is never asked for.
RequiresTotp_never(user) == FALSE

\* Variant: the second step is asked of every user.
RequiresTotp_always(user) == TRUE

\* login: if user["totp_enabled"]
RequiresTotp(user) == user.totp_enabled

\* Variant: every challenge is stored under a key of its own (the
\* temp_token = create_token("temp") that server.py has commented out).
TempKey_fresh(email) ==
    TempNames[Cardinality(DOMAIN totp_temp_sessions) + 1]

\* login: the key of totp_temp_sessions[email] = email
TempKey(email) == email

\* Variant: the challenge is not looked up; the e-mail is taken as given.
PendingLookup_skipped(email) == email

\* login_totp: totp_temp_sessions.get(email)
PendingLookup(email) == Get(totp_temp_sessions, email)

\* Variant: the challenge is left in place.
ConsumeChallenge_kept(temp, key) == temp

\* login_totp: del totp_temp_sessions[email]
ConsumeChallenge(temp, key) == Del(temp, key)

\* Variant: every code is accepted.
CodeMismatch_never(code) == FALSE

\* code != MOCK_TOTP_CODE
CodeMismatch(code) == code # MOCK_TOTP_CODE

\* Variant: storing the secret also switches the second factor on.
StoreSecret_enabling(user, secret) ==
    [user EXCEPT !.totp_secret = secret, !.totp_enabled = TRUE]

\* totp_setup: user["totp_secret"] = secret
StoreSecret(user, secret) == [user EXCEPT !.totp_secret = secret]

\* Variant: the secret outlives the switching off.
ClearSecondFactor_secret_kept(user) == [user EXCEPT !.totp_enabled = FALSE]

\* totp_disable: user["totp_enabled"] = False; user["totp_secret"] = None
ClearSecondFactor(user) ==
    [user EXCEPT !.totp_enabled = FALSE, !.totp_secret = None]

\* Variant: the old password is not compared.
OldPasswordMismatch_unchecked(user, old_password) == FALSE

\* change_password: user["password"] != old_password
OldPasswordMismatch(user, old_password) == user.password # old_password

\* Variant: changing the password switches the second factor off.
ReplacePassword_dropping_second_factor(user, new_password) ==
    [user EXCEPT !.password = new_password, !.totp_enabled = FALSE]

\* change_password: user["password"] = new_password
ReplacePassword(user, new_password) == [user EXCEPT !.password = new_password]

\* A response: the handler, the HTTP status, the message of the body, the
\* accessToken of the body (or None), the account the request was about (or
\* None), and, for GET /api/user, the bearer value that was presented.
Resp(op, status, msg, token, who, bearer) ==
    [op |-> op, status |-> status, msg |-> msg, token |-> token,
     who |-> who, bearer |-> bearer]

\* The requests that the threaded development server (app.run, one thread
\* per request) may be serving at the same time.
Requests == {"request-1", "request-2"}

\* A request whose handler has not started: no position, no locals, no
\* response.
Idle ==
    [pc |-> "idle", email |-> None, code |-> None, pending |-> None,
     token |-> None, file_id |-> None, status |-> 0, msg |-> None]

-----------------------------------------------------------------------------
(* Initial state: the module-level assignments of server.py. *)

SeedUser(password, role, enabled) ==
    [password |-> password, role |-> role,
     totp_enabled |-> enabled, totp_secret |-> None]

Init ==
    /\ users = [e \in {Jitensha, Eenose, Bigbluewhale} |->
                  IF e = Jitensha THEN SeedUser("jitensha@123", "admin", FALSE)
                  ELSE IF e = Eenose THEN SeedUser("eenose@123", "user", TRUE)
                  ELSE SeedUser("bigbluewhale@123", "user", FALSE)]
    /\ sessions = EmptyDict
    /\ totp_temp_sessions = EmptyDict
    /\ files = EmptyDict
    /\ policy = [id |-> 1, maxFileSizeMB |-> 50, minValidityHours |-> 1,
                 maxValidityDays |-> 30, defaultValidityDays |-> 7,
                 requirePasswordMinLength |-> 6]
    /\ minted = 0
    /\ now = 0
    /\ response = Resp("start", 0, None, None, None, None)
    /\ inflight = [r \in Requests |-> Idle]
    /\ uploads = 0

-----------------------------------------------------------------------------
(* Handlers. *)

\* POST /api/auth/login
login(email, password) ==
    /\ UNCHANGED <<users, files, policy, now, inflight, uploads>>
    /\ IF ~Has(users, email) \/ PasswordMismatch(users[email], password)
       THEN /\ response' = Resp("login", 401, "Invalid email or password",
                                None, email, None)
            /\ UNCHANGED <<sessions, totp_temp_sessions, minted>>
       ELSE IF RequiresTotp(users[email])
       THEN /\ totp_temp_sessions' =
                   Put(totp_temp_sessions, TempKey(email), email)
            /\ response' = Resp("login", 200, "TOTP required (mock)",
                                None, email, None)
            /\ UNCHANGED <<sessions, minted>>
       ELSE /\ minted < MaxTokens
            /\ sessions' = Put(sessions, create_token, email)
            /\ minted' = minted + 1
            /\ response' = Resp("login", 200, "Login successful (mock)",
                                create_token, email, None)
            /\ UNCHANGED totp_temp_sessions

\* POST /api/auth/login/totp
login_totp(email, code) ==
    /\ UNCHANGED <<users, files, policy, now, inflight, uploads>>
    /\ IF Falsy(email) \/ Falsy(code)
       THEN /\ response' = Resp("login_totp", 400, "email and code are required",
                                None, email, None)
            /\ UNCHANGED <<sessions, totp_temp_sessions, minted>>
       ELSE LET pending == PendingLookup(email) IN
            IF Falsy(pending)
            THEN /\ response' = Resp("login_totp", 401,
                                     "Invalid or expired tempToken",
                                     None, email, None)
                 /\ UNCHANGED <<sessions, totp_temp_sessions, minted>>
            ELSE IF CodeMismatch(code)
            THEN /\ response' = Resp("login_totp", 401, "Invalid TOTP code",
                                     None, email, None)
                 /\ UNCHANGED <<sessions, totp_temp_sessions, minted>>
            ELSE /\ minted < MaxTokens
                 /\ sessions' = Put(sessions, create_token, pending)
                 /\ minted' = minted + 1
                 /\ IF Has(totp_temp_sessions, pending) /\ Has(users, pending)
                    THEN /\ totp_temp_sessions' =
                                ConsumeChallenge(totp_temp_sessions, pending)
                         /\ response' = Resp("login_totp", 200,
                                             "Login successful (mock)",
                                             create_token, pending, None)
                    ELSE \* KeyError at del, or None["id"]: an unhandled 500
                         /\ totp_temp_sessions' =
                               IF Has(totp_temp_sessions, pending)
                               THEN ConsumeChallenge(totp_temp_sessions, pending)
                               ELSE totp_temp_sessions
                         /\ response' = Resp("login_totp", 500,
                                             "Internal Server Error",
                                             None, email, None)

\* A variant of the existence check that never finds the email.
AlreadyRegistered_never(email) == FALSE

\* email in users
AlreadyRegistered(email) == Has(users, email)

\* POST /api/auth/register
register(email, password) ==
    /\ UNCHANGED <<sessions, totp_temp_sessions, files, policy, minted, now,
                   inflight, uploads>>
    /\ IF Falsy(email) \/ Falsy(password)
       THEN /\ response' = Resp("register", 400, "email and password are required",
                                None, email, None)
            /\ UNCHANGED users
       ELSE IF AlreadyRegistered(email)
       THEN /\ response' = Resp("register", 400, "User already exists",
                                None, email, None)
            /\ UNCHANGED users
       ELSE /\ users' = Put(users, email,
                            [password |-> password, role |-> "user",
                             totp_enabled |-> FALSE, totp_secret |-> None])
            /\ response' = Resp("register", 201, "Registered successfully (mock)",
                                None, email, None)

\* POST /api/auth/totp/setup
totp_setup(bearer) ==
    LET user == get_current_user(bearer) IN
    /\ UNCHANGED <<sessions, totp_temp_sessions, files, policy, minted, now,
                   inflight, uploads>>
    /\ IF Falsy(user)
       THEN /\ response' = Resp("totp_setup", 401, "Unauthorized", None, None, None)
            /\ UNCHANGED users
       ELSE /\ users' = [users EXCEPT
                            ![user] = StoreSecret(users[user], MOCK_SECRET)]
            /\ response' = Resp("totp_setup", 200, "TOTP setup generated (mock)",
                                None, user, None)

\* POST /api/auth/totp/verify
totp_verify(bearer, code) ==
    LET user == get_current_user(bearer) IN
    /\ UNCHANGED <<sessions, totp_temp_sessions, files, policy, minted, now,
                   inflight, uploads>>
    /\ IF Falsy(user)
       THEN /\ response' = Resp("totp_verify", 401, "Unauthorized", None, None, None)
            /\ UNCHANGED users
       ELSE IF Falsy(code)
       THEN /\ response' = Resp("totp_verify", 400, "code is required",
                                None, user, None)
            /\ UNCHANGED users
       ELSE IF CodeMismatch(code)
       THEN /\ response' = Resp("totp_verify", 401, "Invalid TOTP code",
                                None, user, None)
            /\ UNCHANGED users
       ELSE /\ users' = [users EXCEPT ![user].totp_enabled = TRUE]
            /\ response' = Resp("totp_verify", 200, "TOTP enabled successfully (mock)",
                                None, user, None)

\* POST /api/auth/totp/disable
totp_disable(bearer, code) ==
    LET user == get_current_user(bearer) IN
    /\ UNCHANGED <<sessions, totp_temp_sessions, files, policy, minted, now,
                   inflight, uploads>>
    /\ IF Falsy(user)
       THEN /\ response' = Resp("totp_disable", 401, "Unauthorized", None, None, None)
            /\ UNCHANGED users
       ELSE IF Falsy(code)
       THEN /\ response' = Resp("totp_disable", 400, "code is required",
                                None, user, None)
            /\ UNCHANGED users
       ELSE IF ~users[user].totp_enabled
       THEN /\ response' = Resp("totp_disable", 400,
                                "TOTP not enabled for this account",
                                None, user, None)
            /\ UNCHANGED users
       ELSE IF CodeMismatch(code)
       THEN /\ response' = Resp("totp_disable", 400, "Invalid TOTP code",
                                None, user, None)
            /\ UNCHANGED users
       ELSE /\ users' = [users EXCEPT
                            ![user] = ClearSecondFactor(users[user])]
            /\ response' = Resp("totp_disable", 200,
                                "TOTP disabled successfully (mock)",
                                None, user, None)

\* POST /api/auth/logout
\* A variant of the removal that ends every session of the token's user.
RemoveToken_all_of_user(sess, token) ==
    [t \in {x \in DOMAIN sess : sess[x] # sess[token]} |-> sess[t]]

\* del sessions[token]
RemoveToken(sess, token) == Del(sess, token)

logout(bearer) ==
    LET user == get_current_user(bearer) IN
    /\ UNCHANGED <<users, totp_temp_sessions, files, policy, minted, now,
                   inflight, uploads>>
    /\ IF Falsy(user)
       THEN /\ response' = Resp("logout", 401, "Unauthorized", None, None, None)
            /\ UNCHANGED sessions
       ELSE /\ sessions' = IF Has(sessions, bearer)
                           THEN RemoveToken(sessions, bearer)
                           ELSE sessions
            /\ response' = Resp("logout", 200, "Logged out successfully (mock)",
                                None, user, None)

\* POST /api/auth/password/change
change_password(bearer, old_password, totp_code, new_password) ==
    LET user == get_current_user(bearer) IN
    /\ UNCHANGED <<sessions, totp_temp_sessions, files, policy, minted, now,
                   inflight, uploads>>
    /\ IF Falsy(user)
       THEN /\ response' = Resp("change_password", 401, "Unauthorized",
                                None, None, None)
            /\ UNCHANGED users
       ELSE IF Falsy(new_password) \/ Len(new_password) < MinNewPasswordLen
       THEN /\ response' = Resp("change_password", 400,
                                "New password must be at least 6 characters",
                                None, user, None)
            /\ UNCHANGED users
       ELSE IF ~Falsy(old_password)
               /\ OldPasswordMismatch(users[user], old_password)
       THEN /\ response' = Resp("change_password", 400,
                                "The old password is incorrect",
                                None, user, None)
            /\ UNCHANGED users
       ELSE IF Falsy(old_password) /\ ~Falsy(totp_code)
               /\ ~users[user].totp_enabled
       THEN /\ response' = Resp("change_password", 400,
                                "This account does not have TOTP enabled",
                                None, user, None)
            /\ UNCHANGED users
       ELSE IF Falsy(old_password) /\ ~Falsy(totp_code)
               /\ CodeMismatch(totp_code)
       THEN /\ response' = Resp("change_password", 400, "Invalid TOTP code",
                                None, user, None)
            /\ UNCHANGED users
       ELSE IF Falsy(old_password) /\ Falsy(totp_code)
       THEN /\ response' = Resp("change_password", 400,
                                "Either oldPassword or totpCode is required",
                                None, user, None)
            /\ UNCHANGED users
       ELSE /\ users' = [users EXCEPT
                            ![user] = ReplacePassword(users[user], new_password)]
            /\ response' = Resp("change_password", 200,
                                "Password changed successfully",
                                None, user, None)

\* The clock advances.
Tick ==
    /\ now < MaxTime
    /\ now' = now + 1
    /\ UNCHANGED <<users, sessions, totp_temp_sessions, files, policy, minted,
                   response, inflight, uploads>>

\* GET /api/user: a protected read, Validate made observable.
get_user_profile(bearer) ==
    LET user == get_current_user(bearer) IN
    /\ UNCHANGED <<users, sessions, totp_temp_sessions, files, policy, minted,
                   now, inflight, uploads>>
    /\ IF Falsy(user)
       THEN response' = Resp("get_user_profile", 401, "Unauthorized",
                             None, None, bearer)
       ELSE response' = Resp("get_user_profile", 200, "user", None, user, bearer)

\* The login state machine: every handler that reads or writes sessions or
\* totp_temp_sessions, or writes a field of users that login reads.
Next ==
    \/ \E email \in Emails, password \in Passwords : login(email, password)
    \/ \E email \in Emails, code \in Codes : login_totp(email, code)
    \/ \E bearer \in Bearers, code \in Codes : totp_verify(bearer, code)
    \/ \E bearer \in Bearers, code \in Codes : totp_disable(bearer, code)
    \/ \E bearer \in Bearers : logout(bearer)
    \/ \E bearer \in Bearers, body \in ChangeBodies :
          change_password(bearer, body[1], body[2], body[3])
    \/ \E bearer \in Bearers : get_user_profile(bearer)

Spec == Init /\ [][Next]_vars

\* Logging in and out while the clock runs.  Requests arrive or not as the
\* clients please; only the clock is sure to advance.
NextExpiry ==
    \/ \E email \in Emails, password \in Passwords : login(email, password)
    \/ \E email \in Emails, code \in Codes : login_totp(email, code)
    \/ \E bearer \in Bearers : logout(bearer)
    \/ \E bearer \in Bearers : get_user_profile(bearer)
    \/ Tick

SpecExpiry == Init /\ [][NextExpiry]_vars /\ WF_vars(Tick)

-----------------------------------------------------------------------------
(* Vocabulary of the properties. *)

\* The token values create_token has produced so far.
Issued == {TokenNames[i] : i \in 1..minted}

\* The live tokens of a user.
UserTokens(u) == {t \in DOMAIN sessions : sessions[t] = u}

\* The pending second-factor challenges of a user.
Pending(u) == {k \in DOMAIN totp_temp_sessions : totp_temp_sessions[k] = u}

\* Some token that was not live before the step is mapped to u after it.
MintedFor(u) ==
    \E t \in DOMAIN sessions' : ~Has(sessions, t) /\ sessions'[t] = u

\* The step added exactly one token, never produced before, mapped to u.
MintsOneFreshTokenFor(u) ==
    \E t \in Tokens :
        /\ t \notin Issued
        /\ ~Has(sessions, t)
        /\ sessions' = Put(sessions, t, u)
        /\ response'.token = t

\* The error kinds of the specification, as server.py answers them.
InvalidCredential(r) ==
    r.op = "login" /\ r.status = 401 /\ r.msg = "Invalid email or password"

RequiresSecondFactor(r) ==
    r.op = "login" /\ r.status = 200 /\ r.msg = "TOTP required (mock)"

NoPendingChallenge(r) ==
    r.op = "login_totp" /\ r.status = 401
    /\ r.msg = "Invalid or expired tempToken"

InvalidCode(r) ==
    r.op = "login_totp" /\ r.status = 401 /\ r.msg = "Invalid TOTP code"

LoggedIn(r) ==
    r.status = 200 /\ r.msg = "Login successful (mock)" /\ r.token # None

-----------------------------------------------------------------------------
(* Properties of the login state machine. *)

\* C1: for a user whose second factor is Enabled when login is called, a
\* login with the correct password adds no token to sessions and returns
\* none; and whenever a step maps a new token to a user who is Enabled, that
\* step is login_totp with the correct code while a pending challenge for
\* the e-mail exists.
C1_EnabledUserGetsTokenOnlyFromLoginTotp ==
    [][ /\ \A e \in DOMAIN users :
             (users[e].totp_enabled /\ login(e, users[e].password))
             => /\ sessions' = sessions
                /\ minted' = minted
                /\ response'.token = None
                /\ RequiresSecondFactor(response')
        /\ \A u \in DOMAIN users :
             (users[u].totp_enabled /\ MintedFor(u))
             => /\ Has(totp_temp_sessions, u)
                /\ login_totp(u, MOCK_TOTP_CODE)
                /\ LoggedIn(response')
      ]_vars

\* A user with second factor Enabled has logged in with the right password
\* and holds a challenge but was given no token.
C1_Witness ==
    /\ RequiresSecondFactor(response)
    /\ users[response.who].totp_enabled
    /\ Has(totp_temp_sessions, response.who)
    /\ response.token = None
    /\ UserTokens(response.who) = {}

\* C2: for a user whose second factor is Disabled, a login with the correct
\* password adds one fresh token mapped to that user to sessions, returns it,
\* and leaves totp_temp_sessions unchanged.
C2_DisabledUserLogsInDirectly ==
    [][ \A e \in DOMAIN users :
          (~users[e].totp_enabled /\ login(e, users[e].password))
          => /\ MintsOneFreshTokenFor(e)
             /\ LoggedIn(response')
             /\ response'.op = "login"
             /\ totp_temp_sessions' = totp_temp_sessions
      ]_vars

\* A user with second factor Disabled has just been handed a token by login.
C2_Witness ==
    /\ response.op = "login"
    /\ LoggedIn(response)
    /\ ~users[response.who].totp_enabled
    /\ Get(sessions, response.token) = response.who

\* C3: get_current_user succeeds only for a bearer value that is a key of
\* sessions, and yields the user that key is mapped to; a user who holds
\* only a pending challenge is the result of no bearer value; and a pending
\* challenge goes away only in a successful login_totp for its user.
C3_PendingGrantsNoAccess ==
    /\ [](\A b \in Bearers :
            get_current_user(b) # None
            => Has(sessions, b) /\ sessions[b] = get_current_user(b))
    /\ [](\A u \in DOMAIN users :
            (Pending(u) # {} /\ UserTokens(u) = {})
            => \A b \in Bearers : get_current_user(b) # u)
    /\ [][ \A k \in DOMAIN totp_temp_sessions :
             k \notin DOMAIN totp_temp_sessions'
             => /\ response'.op = "login_totp"
                /\ LoggedIn(response')
                /\ response'.who = totp_temp_sessions[k]
         ]_vars

\* The key of a pending challenge was presented as a bearer token by a user
\* with no session, and was refused.
C3_Witness ==
    /\ response.op = "get_user_profile"
    /\ response.status = 401
    /\ Has(totp_temp_sessions, response.bearer)
    /\ UserTokens(totp_temp_sessions[response.bearer]) = {}

\* C4: a token value that was never issued does not validate; logout makes
\* the presented token stop validating; and an issued token that does not
\* validate (a revoked one) never validates again.
C4_RevokedOrUnissuedNeverValid ==
    /\ [](\A b \in Bearers : b \notin Issued => get_current_user(b) = None)
    /\ [][ \A b \in Bearers :
             (get_current_user(b) # None /\ logout(b))
             => /\ b \notin DOMAIN sessions'
                /\ response'.status = 200
         ]_vars
    /\ [][ \A b \in Bearers :
             (b \in Issued /\ ~Has(sessions, b)) => b \notin DOMAIN sessions'
         ]_vars

\* A token that was issued and then revoked was presented and refused.
C4_Witness ==
    /\ response.op = "get_user_profile"
    /\ response.status = 401
    /\ response.bearer \in Issued
    /\ ~Has(sessions, response.bearer)

\* C5: a successful login_totp for an e-mail removes that e-mail's pending
\* challenge and adds exactly one fresh token mapped to that user; a
\* login_totp for the same e-mail with the correct code that directly follows
\* it answers NoPendingChallenge and changes nothing; and a challenge comes
\* into being only in a password-correct login of a user who is Enabled.
C5_LoginTotpConsumesChallenge ==
    /\ [][ \A e \in Emails :
             (login_totp(e, MOCK_TOTP_CODE) /\ response'.status = 200)
             => /\ Has(totp_temp_sessions, e)
                /\ e \notin DOMAIN totp_temp_sessions'
                /\ \A k \in DOMAIN totp_temp_sessions' :
                      totp_temp_sessions'[k] # e
                /\ MintsOneFreshTokenFor(e)
                /\ response'.who = e
         ]_vars
    /\ [][ \A e \in Emails :
             ( /\ response.op = "login_totp"
               /\ LoggedIn(response)
               /\ response.who = e
               /\ login_totp(e, MOCK_TOTP_CODE) )
             => /\ NoPendingChallenge(response')
                /\ response'.token = None
                /\ sessions' = sessions
                /\ totp_temp_sessions' = totp_temp_sessions
                /\ minted' = minted
         ]_vars
    /\ [][ \A e \in Emails :
             (~Has(totp_temp_sessions, e) /\ e \in DOMAIN totp_temp_sessions')
             => /\ Has(users, e)
                /\ users[e].totp_enabled
                /\ login(e, users[e].password)
         ]_vars

\* login_totp has just succeeded: the challenge is gone and the returned
\* token is mapped to the user.
C5_Witness ==
    /\ response.op = "login_totp"
    /\ LoggedIn(response)
    /\ ~Has(totp_temp_sessions, response.who)
    /\ Get(sessions, response.token) = response.who

\* C6: login_totp for an e-mail that has no pending challenge fails and
\* leaves sessions and totp_temp_sessions unchanged, whatever the code; with
\* an e-mail and a code presented it fails with NoPendingChallenge, with
\* one of them missing or empty the request is refused as incomplete (400).
C6_NoChallengeNoSession ==
    [][ \A e \in Emails, c \in Codes :
          ( /\ response'.op = "login_totp"
            /\ ~Has(totp_temp_sessions, e)
            /\ login_totp(e, c) )
          => /\ sessions' = sessions
             /\ totp_temp_sessions' = totp_temp_sessions
             /\ minted' = minted
             /\ response'.token = None
             /\ IF Falsy(e) \/ Falsy(c)
                THEN response'.status = 400
                ELSE NoPendingChallenge(response')
      ]_vars

\* login_totp was refused for want of a challenge, for a user with second
\* factor Enabled.
C6_Witness ==
    /\ NoPendingChallenge(response)
    /\ Has(users, response.who)
    /\ users[response.who].totp_enabled
    /\ ~Has(totp_temp_sessions, response.who)

\* C7: login_totp with a code that is presented and wrong, against an
\* existing pending challenge, fails with InvalidCode, mints nothing and
\* leaves the challenge in place; and whenever a challenge exists, however
\* many wrong codes came before, login_totp with the correct code succeeds.
C7_WrongCodeKeepsChallenge ==
    /\ [][ \A e \in Emails, c \in Codes :
             ( /\ response'.op = "login_totp"
               /\ Has(totp_temp_sessions, e)
               /\ ~Falsy(c)
               /\ c # MOCK_TOTP_CODE
               /\ login_totp(e, c) )
             => /\ InvalidCode(response')
                /\ response'.token = None
                /\ sessions' = sessions
                /\ minted' = minted
                /\ totp_temp_sessions' = totp_temp_sessions
         ]_vars
    /\ [][ \A e \in Emails :
             (Has(totp_temp_sessions, e) /\ login_totp(e, MOCK_TOTP_CODE))
             => /\ response'.status = 200
                /\ MintsOneFreshTokenFor(e)
         ]_vars
    /\ [](\A e \in Emails :
            (Has(totp_temp_sessions, e) /\ minted < MaxTokens)
            => ENABLED login_totp(e, MOCK_TOTP_CODE))

\* A wrong code has just been refused and the challenge is still there.
C7_Witness ==
    /\ InvalidCode(response)
    /\ Has(totp_temp_sessions, response.who)

\* C8: login with an unknown e-mail, or with a known e-mail and a password
\* other than the stored one, fails with InvalidCredential and changes no
\* store: no token, no challenge created or replaced.
C8_BadCredentialChangesNothing ==
    [][ \A e \in Emails, p \in Passwords :
          ( /\ response'.op = "login"
            /\ ~Has(users, e) \/ users[e].password # p
            /\ login(e, p) )
          => /\ InvalidCredential(response')
             /\ response'.token = None
             /\ sessions' = sessions
             /\ totp_temp_sessions' = totp_temp_sessions
             /\ users' = users
             /\ minted' = minted
      ]_vars

\* A login of a known user with second factor Enabled was refused, and
\* there is no challenge for that user.
C8_Witness ==
    /\ InvalidCredential(response)
    /\ Has(users, response.who)
    /\ users[response.who].totp_enabled
    /\ Pending(response.who) = {}

-----------------------------------------------------------------------------
(* Expiry. *)

\* C10: every session stops being accepted once time has advanced far
\* enough: a live token eventually fails get_current_user (by logout or by
\* expiry), and a pending challenge eventually is no longer there for
\* login_totp (by being consumed or by expiry).
C10_SessionsAndChallengesExpire ==
    /\ \A t \in Tokens :
          Has(sessions, t) ~> (get_current_user(t) = None)
    /\ \A e \in {Jitensha, Eenose} :
          Has(totp_temp_sessions, e) ~> ~Has(totp_temp_sessions, e)

-----------------------------------------------------------------------------
(* login_totp statement by statement.  app.run serves each request on a     *)
(* thread of its own, and nothing in server.py locks totp_temp_sessions or  *)
(* sessions: between two statements of one handler another handler may run. *)

\* The response of request r, kept with its locals.
Answered(req, status, msg) ==
    [req EXCEPT !.pc = "done", !.status = status, !.msg = msg]

\* login_totp, lines 216-230: read the body, look the challenge up
\* (totp_temp_sessions.get), compare the code.
login_totp_lookup(r, email, code) ==
    LET req == [inflight[r] EXCEPT !.email = email, !.code = code] IN
    /\ inflight[r].pc = "idle"
    /\ UNCHANGED <<users, sessions, totp_temp_sessions, files, policy, minted,
                   now, response,
                   uploads>>
    /\ IF Falsy(email) \/ Falsy(code)
       THEN inflight' = [inflight EXCEPT
                ![r] = Answered(req, 400, "email and code are required")]
       ELSE LET pending == PendingLookup(email) IN
            IF Falsy(pending)
            THEN inflight' = [inflight EXCEPT
                     ![r] = Answered(req, 401, "Invalid or expired tempToken")]
            ELSE IF CodeMismatch(code)
            THEN inflight' = [inflight EXCEPT
                     ![r] = Answered(req, 401, "Invalid TOTP code")]
            ELSE inflight' = [inflight EXCEPT
                     ![r] = [req EXCEPT !.pc = "mint", !.pending = pending]]

\* login_totp, lines 233-234: token = create_token("acc");
\* sessions[token] = email
login_totp_mint(r) ==
    /\ inflight[r].pc = "mint"
    /\ minted < MaxTokens
    /\ sessions' = Put(sessions, create_token, inflight[r].pending)
    /\ minted' = minted + 1
    /\ inflight' = [inflight EXCEPT ![r].pc = "consume",
                                    ![r].token = create_token]
    /\ UNCHANGED <<users, totp_temp_sessions, files, policy, now, response,
                   uploads>>

\* login_totp, lines 235-250: del totp_temp_sessions[email] and the answer.
\* del raises KeyError when the key is gone; nothing catches it, the request
\* ends as a 500 and the session written at line 234 stays.
login_totp_consume(r) ==
    LET pending == inflight[r].pending IN
    /\ inflight[r].pc = "consume"
    /\ UNCHANGED <<users, sessions, files, policy, minted, now, response,
                   uploads>>
    /\ IF Has(totp_temp_sessions, pending)
       THEN /\ totp_temp_sessions' =
                   ConsumeChallenge(totp_temp_sessions, pending)
            /\ inflight' = [inflight EXCEPT
                   ![r] = Answered(inflight[r], 200, "Login successful (mock)")]
       ELSE /\ UNCHANGED totp_temp_sessions
            /\ inflight' = [inflight EXCEPT
                   ![r] = Answered(inflight[r], 500, "Internal Server Error")]

\* Two login_totp requests served at the same time, while clients log in.
NextRace ==
    \/ \E email \in Emails, password \in Passwords : login(email, password)
    \/ \E r \in Requests, email \in Emails, code \in Codes :
          login_totp_lookup(r, email, code)
    \/ \E r \in Requests : login_totp_mint(r)
    \/ \E r \in Requests : login_totp_consume(r)

SpecRace == Init /\ [][NextRace]_vars

\* C11: the lookup, mint and delete of one login_totp request behave as one
\* atomic step.  A request that found the challenge and has not yet deleted
\* it still finds it there (no other request consumed it in between); no two
\* requests hold a session minted from the same challenge at once; and no
\* request ends in an unhandled failure (status 500).  So of two requests
\* with the correct code for one challenge exactly one mints and the other
\* is answered NoPendingChallenge.
C11_ConcurrentLoginTotpIsAtomic ==
    /\ \A r \in Requests :
           inflight[r].pc \in {"mint", "consume"}
               => Has(totp_temp_sessions, inflight[r].pending)
    /\ \A r, q \in Requests :
           /\ r # q
           /\ inflight[r].pc = "consume"
           /\ inflight[q].pc = "consume"
           => inflight[r].pending # inflight[q].pending
    /\ \A r \in Requests : inflight[r].status # 500

-----------------------------------------------------------------------------
(* Logout. *)

\* C12: logout is idempotent and always succeeds.  Whatever token is
\* presented, the answer is a success and the token is not in sessions
\* afterwards; when the token was already absent (never issued, or logged
\* out before), sessions is unchanged.  So a second logout of the same
\* token gives the answer and the state of the first.
C12_LogoutIdempotentAlwaysSucceeds ==
    [][ \A t \in Tokens :
          (response'.op = "logout" /\ logout(t))
          => /\ response'.status = 200
             /\ ~Has(sessions', t)
             /\ (~Has(sessions, t) => sessions' = sessions)
      ]_vars

-----------------------------------------------------------------------------
(* Second-factor enrolment. *)

\* Logging in, and setting up, confirming and disabling the second factor.
NextEnroll ==
    \/ \E email \in Emails, password \in Passwords : login(email, password)
    \/ \E email \in Emails, code \in Codes : login_totp(email, code)
    \/ \E bearer \in Bearers : totp_setup(bearer)
    \/ \E bearer \in Bearers, code \in Codes : totp_verify(bearer, code)
    \/ \E bearer \in Bearers, code \in Codes : totp_disable(bearer, code)

SpecEnroll == Init /\ [][NextEnroll]_vars

\* The enrolment states of the specification, in the two fields server.py
\* keeps: Disabled is (totp_enabled False, no secret), PendingEnrollment is
\* (False, a secret), Enabled is (True, a secret).
Disabled(user) == ~user.totp_enabled /\ user.totp_secret = None

PendingEnrollment(user) == ~user.totp_enabled /\ user.totp_secret # None

Enabled(user) == user.totp_enabled /\ user.totp_secret # None

\* C13: in every reachable state every user is Disabled, PendingEnrollment
\* or Enabled: no user has totp_enabled true while totp_secret is None.
C13_EnrolmentStateHasSecret ==
    \A u \in DOMAIN users :
        \/ Disabled(users[u])
        \/ PendingEnrollment(users[u])
        \/ Enabled(users[u])

\* C14: totp_enabled turns true only in a successful totp_verify of a user
\* who is in PendingEnrollment; and a totp_verify by a user with no stored
\* secret, or with an invalid code, is refused and changes no user record.
C14_EnabledOnlyByConfirmingPendingSecret ==
    [][ /\ \A u \in DOMAIN users :
              (~users[u].totp_enabled /\ users'[u].totp_enabled)
              => /\ response'.op = "totp_verify"
                 /\ response'.status = 200
                 /\ response'.who = u
                 /\ PendingEnrollment(users[u])
        /\ \A b \in Bearers, c \in Codes :
              LET u == get_current_user(b) IN
              (/\ response'.op = "totp_verify"
               /\ totp_verify(b, c)
               /\ u # None
               /\ (users[u].totp_secret = None \/ c # MOCK_TOTP_CODE))
              => /\ response'.status # 200
                 /\ users' = users
      ]_vars

NotEnabled(r) ==
    r.op = "totp_disable" /\ r.status = 400
    /\ r.msg = "TOTP not enabled for this account"

InvalidDisableCode(r) ==
    r.op = "totp_disable" /\ r.status = 400 /\ r.msg = "Invalid TOTP code"

\* C16: totp_disable by a logged-in user who presents a code.  If
\* totp_enabled is false the answer is NotEnabled; if it is true and the
\* code is not the valid one the answer is InvalidCode; in both cases (and
\* when no code is presented, or the caller is not logged in) no user
\* record changes.  With totp_enabled true and the valid code it succeeds:
\* the user's totp_enabled is false and the secret is None afterwards,
\* nothing else changes, and login no longer asks that user for a second
\* step: a password-correct login of a user whose second factor is off
\* returns a token directly.
C16_DisableNeedsEnabledAndValidCode ==
    [][ /\ \A b \in Bearers, c \in Codes :
              LET u == get_current_user(b) IN
              (response'.op = "totp_disable" /\ totp_disable(b, c))
              => /\ (u # None /\ c # None /\ ~users[u].totp_enabled)
                        => (NotEnabled(response') /\ users' = users)
                 /\ (u # None /\ c # None /\ users[u].totp_enabled
                        /\ c # MOCK_TOTP_CODE)
                        => (InvalidDisableCode(response') /\ users' = users)
                 /\ (u = None \/ c = None)
                        => (response'.status \in {400, 401} /\ users' = users)
                 /\ (u # None /\ users[u].totp_enabled /\ c = MOCK_TOTP_CODE)
                        => /\ response'.status = 200
                           /\ Disabled(users'[u])
                           /\ ~RequiresTotp(users'[u])
                           /\ users'[u].password = users[u].password
                           /\ users'[u].role = users[u].role
                           /\ \A v \in DOMAIN users :
                                  v # u => users'[v] = users[v]
                 /\ sessions' = sessions
                 /\ totp_temp_sessions' = totp_temp_sessions
        /\ \A e \in DOMAIN users :
              (/\ response'.op = "login"
               /\ Disabled(users[e])
               /\ login(e, users[e].password))
              => /\ MintsOneFreshTokenFor(e)
                 /\ LoggedIn(response')
                 /\ totp_temp_sessions' = totp_temp_sessions
      ]_vars

\* A user whose second factor was off in the seed has switched it on and
\* then off again: the answer is a success and no secret is left, while the
\* user's token is still live.
C16_Witness ==
    /\ response.op = "totp_disable"
    /\ response.status = 200
    /\ response.who = Jitensha
    /\ Disabled(users[Jitensha])
    /\ UserTokens(Jitensha) # {}

-----------------------------------------------------------------------------
(* Changing the password, under a policy the administrator may change. *)

UPDATABLE_FIELDS ==
    {"maxFileSizeMB", "minValidityHours", "maxValidityDays",
     "defaultValidityDays", "requirePasswordMinLength"}

\* The JSON bodies sent to PATCH /api/admin/policy: a longer and the seeded
\* minimum password length, a smaller file size, a field that is not
\* updatable, and no field at all.
PolicyBodies ==
    {[requirePasswordMinLength |-> 10], [requirePasswordMinLength |-> 6],
     [maxFileSizeMB |-> 1], [id |-> 2], EmptyDict}

\* PATCH /api/admin/policy.  The handler does not call get_current_user.
update_policy(data) ==
    /\ policy' = [key \in DOMAIN policy |->
                    IF key \in UPDATABLE_FIELDS /\ Has(data, key)
                    THEN data[key] ELSE policy[key]]
    /\ response' = Resp("update_policy", 200, "Cập nhật thành công (mock)",
                        None, None, None)
    /\ UNCHANGED <<users, sessions, totp_temp_sessions, files, minted, now,
                   inflight, uploads>>

\* A bearer header with a token in it, or no usable header.
TokenBearers == Tokens \cup {None}

\* Logging in and changing the password with every body.
NextPassword ==
    \/ \E email \in Emails, password \in Passwords : login(email, password)
    \/ \E email \in Emails, code \in Codes : login_totp(email, code)
    \/ \E bearer \in TokenBearers, old_password \in Passwords,
          totp_code \in Codes, new_password \in NewPasswords :
          change_password(bearer, old_password, totp_code, new_password)

SpecPassword == Init /\ [][NextPassword]_vars

\* Logging in and changing the password while the policy changes.
NextPolicy ==
    \/ \E email \in Emails, password \in Passwords : login(email, password)
    \/ \E email \in Emails, code \in Codes : login_totp(email, code)
    \/ \E bearer \in TokenBearers, body \in ChangeBodies :
          change_password(bearer, body[1], body[2], body[3])
    \/ \E data \in PolicyBodies : update_policy(data)

SpecPolicy == Init /\ [][NextPolicy]_vars

\* The proof change_password accepts from user record `user`: the old
\* password, equal to the current one; or, with no old password, the valid
\* code while the second factor is on.
ValidProof(user, old_password, totp_code) ==
    \/ old_password # None /\ old_password = user.password
    \/ /\ old_password = None
       /\ totp_code = MOCK_TOTP_CODE
       /\ user.totp_enabled

\* The answer of login's first test (lines 183-185) on a users table.
LoginRefuses(table, email, password) ==
    ~Has(table, email) \/ PasswordMismatch(table[email], password)

\* C17: a stored password changes only in a successful change_password of
\* a caller with a live session and a valid proof, and then only that
\* user's password changes, to the new one.  With a wrong old password, with
\* a code while the second factor is off, with an invalid code, or with no
\* proof, the answer is an error (400) and no user record changes; without
\* a live session the answer is 401 and no user record changes.
C17_PasswordChangesOnlyWithValidProof ==
    [][ /\ \A u \in DOMAIN users :
              users'[u].password # users[u].password
              => /\ response'.op = "change_password"
                 /\ response'.status = 200
                 /\ response'.who = u
        /\ \A b \in TokenBearers, o \in Passwords, c \in Codes,
              n \in NewPasswords :
              LET u == get_current_user(b) IN
              (/\ response'.op = "change_password"
               /\ response'.who = u
               /\ change_password(b, o, c, n))
              => /\ response'.status = 200
                    => /\ u # None
                       /\ ValidProof(users[u], o, c)
                       /\ users' = [users EXCEPT ![u].password = n]
                 /\ u = None => (response'.status = 401 /\ users' = users)
                 /\ (u # None /\ o # None /\ o # users[u].password)
                    => (response'.status = 400 /\ users' = users)
                 /\ (u # None /\ o = None /\ c # None
                       /\ ~users[u].totp_enabled)
                    => (response'.status = 400 /\ users' = users)
                 /\ (u # None /\ o = None /\ c # None /\ c # MOCK_TOTP_CODE)
                    => (response'.status = 400 /\ users' = users)
                 /\ (u # None /\ o = None /\ c = None)
                    => (response'.status = 400 /\ users' = users)
                 /\ response'.status # 200 => users' = users
      ]_vars

\* A user whose second factor is on has changed the password with the code
\* as the proof, and another user with the old password as the proof.
C17_Witness ==
    /\ response.op = "change_password"
    /\ response.status = 200
    /\ users[Eenose].password = "newpass1"
    /\ users[Jitensha].password = "newpass1"

\* C18, as it was stated: a successful change_password replaces only the
\* password of the caller; sessions and totp_temp_sessions are unchanged
\* and every bearer value validates as before; and from then on login
\* refuses the old password and does not refuse the new one.
C18_ChangeKeepsSessionsOldPasswordFails ==
    [][ \A b \in TokenBearers, o \in Passwords, c \in Codes,
           n \in NewPasswords :
          LET u == get_current_user(b) IN
          (/\ response'.op = "change_password"
           /\ response'.status = 200
           /\ response'.who = u
           /\ change_password(b, o, c, n))
          => /\ users' = [users EXCEPT ![u].password = n]
             /\ sessions' = sessions
             /\ totp_temp_sessions' = totp_temp_sessions
             /\ \A t \in Bearers : get_current_user(t)' = get_current_user(t)
             /\ LoginRefuses(users', u, users[u].password)
             /\ ~LoginRefuses(users', u, n)
      ]_vars

\* C18, amended: a successful change_password replaces only the password of
\* the caller; sessions and totp_temp_sessions are unchanged and every
\* bearer value validates as before; from then on login does not refuse the
\* new password, and refuses the old one exactly when the new password
\* differs from it.  (login answers InvalidCredential exactly when its
\* first test refuses.)
C18_ChangeReplacesOnlyPassword ==
    [][ /\ \A b \in TokenBearers, o \in Passwords, c \in Codes,
              n \in NewPasswords :
              LET u == get_current_user(b) IN
              (/\ response'.op = "change_password"
               /\ response'.status = 200
               /\ response'.who = u
               /\ change_password(b, o, c, n))
              => /\ users' = [users EXCEPT ![u].password = n]
                 /\ sessions' = sessions
                 /\ totp_temp_sessions' = totp_temp_sessions
                 /\ minted' = minted
                 /\ \A t \in Bearers :
                        get_current_user(t)' = get_current_user(t)
                 /\ ~LoginRefuses(users', u, n)
                 /\ LoginRefuses(users', u, users[u].password)
                        <=> (n # users[u].password)
        /\ \A e \in Emails, p \in Passwords :
              (response'.op = "login" /\ login(e, p))
              => (InvalidCredential(response') <=> LoginRefuses(users, e, p))
      ]_vars

\* A user has changed the password while holding two live tokens, and
\* another user's challenge is pending.
C18_Witness ==
    /\ response.op = "change_password"
    /\ response.status = 200
    /\ users[response.who].password = "newpass1"
    /\ Cardinality(UserTokens(response.who)) = 2
    /\ totp_temp_sessions # EmptyDict

\* The error kind WeakPassword, as change_password answers it.
WeakPassword(r) ==
    r.op = "change_password" /\ r.status = 400
    /\ r.msg = "New password must be at least 6 characters"

\* C19: change_password by a logged-in user with a new password that is
\* missing or shorter than the policy's current requirePasswordMinLength is
\* answered WeakPassword, whatever the proof, and no user record changes.
C19_WeakPasswordFollowsPolicy ==
    [][ \A b \in TokenBearers, body \in ChangeBodies :
          LET u == get_current_user(b) IN
          (/\ response'.op = "change_password"
           /\ response'.who = u
           /\ u # None
           /\ change_password(b, body[1], body[2], body[3])
           /\ (\/ body[3] = None
               \/ Len(body[3]) < policy.requirePasswordMinLength))
          => /\ WeakPassword(response')
             /\ users' = users
      ]_vars

-----------------------------------------------------------------------------
(* Share records: upload_file, get_file_status, get_user_files. *)

\* upload_file stores at most MaxFiles records in a run.
MaxFiles == 2

\* The records a run of SpecStatus stores and lists.
MaxListed == 1

\* The values uuid4 yields for file ids, in the order upload_file draws them.
FileNames == <<"file-1", "file-2", "file-3">>

\* A file id that upload_file never issued.
UnknownFile == "file-0"

\* The instants of the clock.
Times == 0..MaxTime

\* The text of a date field, by its form and the instant it names: absent
\* or empty ("none"), not ISO 8601 ("bad"), ISO without a UTC offset
\* ("naive", as 2030-01-01T00:00:00), ISO with an offset ("offset", as
\* ...+00:00) and ISO with the suffix Z ("zulu").
IsoText(kind, t) == [kind |-> kind, t |-> t]

NoDate == IsoText("none", 0)

BadDate == IsoText("bad", 0)

RawDates ==
    {NoDate, BadDate, IsoText("zulu", 1)}
    \cup {IsoText(kind, t) : kind \in {"naive", "offset"}, t \in Times}

\* A datetime object: naive or aware, and its instant.  NoDatetime is the
\* None a date variable holds when the field was absent; ValueError is what
\* fromisoformat raises.
Datetime(kind, t) == [kind |-> kind, t |-> t]

NoDatetime == Datetime("None", 0)

ValueError == Datetime("ValueError", 0)

\* datetime.fromisoformat.  The suffix Z is accepted from Python 3.11 on and
\* raises ValueError before: accepts_z says which interpreter runs.
fromisoformat(text, accepts_z) ==
    IF text.kind = "naive" THEN Datetime("naive", text.t)
    ELSE IF text.kind = "offset" THEN Datetime("aware", text.t)
    ELSE IF text.kind = "zulu" /\ accepts_z THEN Datetime("aware", text.t)
    ELSE ValueError

\* datetime.isoformat: an aware datetime is written with its offset.
isoformat(d) == IsoText(IF d.kind = "aware" THEN "offset" ELSE "naive", d.t)

\* str.replace("Z", "+00:00")
replace_Z(text) ==
    IF text.kind = "zulu" THEN IsoText("offset", text.t) ELSE text

\* Comparing an aware with a naive datetime raises TypeError.
Comparable(a, b) == a.kind = b.kind

\* get_file_status, with the value datetime.now(timezone.utc) returned (an
\* aware datetime).  "TypeError" stands for the exception the comparison
\* raises; nothing in get_file_status or its caller catches it.
get_file_status(file_meta, clock) ==
    LET utcnow == Datetime("aware", clock)
        available_from_str == file_meta.availableFrom
        available_to_str == file_meta.availableTo
        available_from ==
            IF available_from_str.kind # "none"
            THEN fromisoformat(replace_Z(available_from_str), FALSE)
            ELSE NoDatetime
        available_to ==
            IF available_to_str.kind # "none"
            THEN fromisoformat(replace_Z(available_to_str), FALSE)
            ELSE NoDatetime
    IN  IF available_from.kind = "ValueError" \/ available_to.kind = "ValueError"
        THEN "ValueError"
        ELSE IF available_from # NoDatetime /\ ~Comparable(utcnow, available_from)
        THEN "TypeError"
        ELSE IF available_from # NoDatetime /\ utcnow.t < available_from.t
        THEN "pending"
        ELSE IF available_to # NoDatetime /\ ~Comparable(utcnow, available_to)
        THEN "TypeError"
        ELSE IF available_to # NoDatetime /\ utcnow.t > available_to.t
        THEN "expired"
        ELSE "active"

\* The interpreters that tell two date fields apart: both kinds when one
\* of the fields ends in Z, else one (they parse every other text alike).
Interpreters(available_from_raw, available_to_raw) ==
    IF "zulu" \in {available_from_raw.kind, available_to_raw.kind}
    THEN BOOLEAN ELSE {TRUE}

\* The "file" part of the form: absent, one byte, or one byte more than the
\* seeded policy allows.
Uploads ==
    {[present |-> FALSE, size |-> 0], [present |-> TRUE, size |-> 1],
     [present |-> TRUE, size |-> 50 * 1024 * 1024 + 1]}

\* A variant of uuid4 that yields the first id again.
NewFileId_reused == FileNames[1]

\* str(uuid.uuid4()): an id that no earlier upload drew.
NewFileId == FileNames[uploads + 1]

\* A variant of the window check that lets an empty window (start equal to
\* end) pass.
NotEarlier_equal_allowed(available_from, available_to) ==
    available_from.t > available_to.t

\* available_from >= available_to, for two datetimes that compare.
NotEarlier(available_from, available_to) ==
    available_from.t >= available_to.t

\* A variant that files every upload without an owner.
owner_email_absent(user) == None

\* user.get("email") if user else None
owner_email(user) == user

\* POST /api/files/upload.  The response carries the new file id (the
\* shareToken of the body) in its token field.
upload_file(bearer, file, is_public, password, available_from_raw, available_to_raw, shared_with, enable_totp, accepts_z) ==
    LET user == get_current_user(bearer)
        max_bytes == policy.maxFileSizeMB * 1024 * 1024
        available_from ==
            IF available_from_raw.kind # "none"
            THEN fromisoformat(available_from_raw, accepts_z) ELSE NoDatetime
        available_to ==
            IF available_to_raw.kind # "none"
            THEN fromisoformat(available_to_raw, accepts_z) ELSE NoDatetime
        file_id == NewFileId
        file_meta ==
            [id |-> file_id, size |-> file.size, shareToken |-> file_id,
             ownerEmail |-> owner_email(user), isPublic |-> is_public,
             passwordProtected |-> ~Falsy(password),
             availableFrom |-> IF available_from # NoDatetime
                               THEN isoformat(available_from) ELSE NoDate,
             availableTo |-> IF available_to # NoDatetime
                             THEN isoformat(available_to) ELSE NoDate,
             sharedWith |-> shared_with, createdAt |-> now,
             totpEnabled |-> enable_totp]
        Refuse(status, msg) ==
            /\ response' = Resp("upload_file", status, msg, None, user, None)
            /\ UNCHANGED <<files, uploads>>
    IN
    /\ UNCHANGED <<users, sessions, totp_temp_sessions, policy, minted, now,
                   inflight>>
    /\ IF ~file.present
       THEN Refuse(400, "file is required")
       ELSE IF file.size > max_bytes
       THEN Refuse(413, "File too large")
       ELSE IF ~Falsy(password)
               /\ Len(password) < policy.requirePasswordMinLength
       THEN Refuse(400, "Password too short")
       ELSE IF available_from = ValueError \/ available_to = ValueError
       THEN Refuse(400, "Invalid datetime format, use ISO format")
       ELSE IF available_from # NoDatetime /\ available_to # NoDatetime
               /\ ~Comparable(available_from, available_to)
       THEN \* TypeError, caught by "except Exception"
            Refuse(400, "Invalid datetime format, use ISO format")
       ELSE IF available_from # NoDatetime /\ available_to # NoDatetime
               /\ NotEarlier(available_from, available_to)
       THEN Refuse(400, "availableFrom must be earlier than availableTo")
       ELSE /\ uploads < MaxFiles
            /\ files' = Put(files, file_id, file_meta)
            /\ uploads' = uploads + 1
            /\ response' = Resp("upload_file", 200, "Upload successful (mock)",
                                file_id, user, None)

\* The values of the "status" query parameter.
StatusFilters == {"all", "active", "pending", "expired"}

\* GET /api/files/my, with the default page, limit and order.  The msg field
\* of the response carries the "files" array of the body as a function from
\* file id to status.  get_file_status is called on every record of the
\* caller before the filter; an exception it raises ends the request as an
\* unhandled 500.
get_user_files(bearer, status_filter) ==
    LET user == get_current_user(bearer)
        mine == {id \in DOMAIN files : files[id].ownerEmail = user}
        status == [id \in mine |-> get_file_status(files[id], now)]
        listed == {id \in mine :
                      status_filter = "all" \/ status[id] = status_filter}
    IN
    /\ UNCHANGED <<users, sessions, totp_temp_sessions, files, policy, minted,
                   now, inflight, uploads>>
    /\ IF Falsy(user)
       THEN response' = Resp("get_user_files", 401, "Unauthorized",
                             None, None, None)
       ELSE IF \E id \in mine : status[id] \in {"TypeError", "ValueError"}
       THEN response' = Resp("get_user_files", 500, "Internal Server Error",
                             None, user, None)
       ELSE response' = Resp("get_user_files", 200,
                             [id \in listed |-> status[id]], None, user, None)

\* One user logging in, uploading with every availability window, and
\* listing the files while the clock runs.
NextStatus ==
    \/ login(Jitensha, "jitensha@123")
    \/ /\ uploads < MaxListed
       /\ \E bearer \in TokenBearers, available_from_raw \in RawDates,
             available_to_raw \in RawDates :
             \E accepts_z \in Interpreters(available_from_raw,
                                           available_to_raw) :
                 upload_file(bearer, [present |-> TRUE, size |-> 1], FALSE,
                             None, available_from_raw, available_to_raw, {},
                             FALSE, accepts_z)
    \/ \E bearer \in TokenBearers, status_filter \in StatusFilters :
          get_user_files(bearer, status_filter)
    \/ Tick

SpecStatus == Init /\ [][NextStatus]_vars

\* The lifecycle status of the specification: Pending iff a start is set
\* and now is strictly before it; otherwise Expired iff an end is set and
\* now is strictly after it; otherwise Active.
LifecycleStatus(file_meta, clock) ==
    IF file_meta.availableFrom # NoDate /\ clock < file_meta.availableFrom.t
    THEN "pending"
    ELSE IF file_meta.availableTo # NoDate /\ clock > file_meta.availableTo.t
    THEN "expired"
    ELSE "active"

\* C20: for every stored share record and every current time,
\* get_file_status returns the lifecycle status of the specification (so at
\* both boundary instants it returns active, without a start never pending,
\* without an end never expired), and a listing by get_user_files for a
\* logged-in user succeeds and reports that status for every record listed.
C20_FileStatusIsLifecycleStatus ==
    [][ /\ \A id \in DOMAIN files' :
               get_file_status(files'[id], now')
                   = LifecycleStatus(files'[id], now')
        /\ \A b \in TokenBearers, f \in StatusFilters :
               (/\ response'.op = "get_user_files"
                /\ get_user_files(b, f)
                /\ get_current_user(b) # None)
               => /\ response'.status = 200
                  /\ DOMAIN response'.msg =
                         {id \in DOMAIN files :
                             /\ files[id].ownerEmail = get_current_user(b)
                             /\ f \in {"all", LifecycleStatus(files[id], now)}}
                  /\ \A id \in DOMAIN response'.msg :
                         response'.msg[id] = LifecycleStatus(files[id], now)
      ]_vars

-----------------------------------------------------------------------------
(* Share access: the decision a holder of a share token receives.  server.py
   has no handler for it (the shareLink of a record names a page of the web
   client); the decision procedure is the one of the specification, applied
   to the records upload_file stores and to get_file_status. *)

\* What a caller presents: who they are (None when anonymous), whether the
\* password they typed is the share's, and a 6-digit code.
Credentials ==
    [identity : {None, Jitensha, Eenose}, password_matches : BOOLEAN,
     code : {MOCK_TOTP_CODE, "000000"}]

\* The gates of the decision for one record, in their fixed order:
\* lifecycle, visibility, password, second factor.  An exception of
\* get_file_status ends the evaluation with that exception.
EvaluateRecord(file_meta, credentials, clock) ==
    LET status == get_file_status(file_meta, clock)
    IN  IF status \in {"TypeError", "ValueError"} THEN status
        ELSE IF status \in {"pending", "expired"} THEN "NotAvailable"
        ELSE IF ~file_meta.isPublic
                /\ credentials.identity \notin file_meta.sharedWith
        THEN "NotInvited"
        ELSE IF file_meta.passwordProtected /\ ~credentials.password_matches
        THEN "WrongPassword"
        ELSE IF file_meta.totpEnabled /\ CodeMismatch(credentials.code)
        THEN "InvalidCode"
        ELSE "Granted"

\* Evaluate(shareToken, credentials) at the current time.
Evaluate(shareToken, credentials) ==
    IF ~Has(files, shareToken) THEN "NotFound"
    ELSE EvaluateRecord(Get(files, shareToken), credentials, now)

\* A request for the share behind a token: the decision is the answer.
evaluate(shareToken, credentials) ==
    /\ response' = Resp("evaluate", 200, Evaluate(shareToken, credentials),
                        shareToken, credentials.identity, None)
    /\ UNCHANGED <<users, sessions, totp_temp_sessions, files, policy, minted,
                   now, inflight, uploads>>

\* The availability windows of SpecAccess: none, or an instant written with
\* or without a UTC offset.
AccessDates == {NoDate, IsoText("offset", 1), IsoText("naive", 1)}

\* Anonymous and logged-in uploads of shares with and without a password and
\* a second-factor requirement, evaluated while the clock runs.
NextAccess ==
    \/ \E password \in {None, "sharepw1"}, enable_totp \in BOOLEAN,
          available_from_raw \in AccessDates, available_to_raw \in AccessDates :
          upload_file(None, [present |-> TRUE, size |-> 1], TRUE, password,
                      available_from_raw, available_to_raw, {}, enable_totp,
                      TRUE)
    \/ \E shareToken \in {FileNames[1], UnknownFile},
          credentials \in Credentials :
          evaluate(shareToken, credentials)
    \/ Tick

SpecAccess == Init /\ [][NextAccess]_vars

\* C21: the lifecycle gate comes before every content gate: for a stored
\* share whose lifecycle status is Pending or Expired, Evaluate returns
\* NotAvailable for every combination of presented credentials, and two
\* such shares get the same decision whatever their password and
\* second-factor requirements are.
C21_LifecycleGateHidesContentGates ==
    LET closed == {id \in DOMAIN files :
                      LifecycleStatus(files[id], now) \in {"pending", "expired"}}
    IN  /\ \A id \in closed, c \in Credentials :
               Evaluate(id, c) = "NotAvailable"
        /\ \A id1 \in closed, id2 \in closed :
               \A c1 \in Credentials, c2 \in Credentials :
                   Evaluate(id1, c1) = Evaluate(id2, c2)

\* The same for shares whose dates carry a UTC offset: there two closed
\* shares that differ in their content gates exist and get one decision.
C21_AwareSharesHideContentGates ==
    LET closed == {id \in DOMAIN files :
                      /\ LifecycleStatus(files[id], now) \in {"pending", "expired"}
                      /\ files[id].availableFrom.kind # "naive"
                      /\ files[id].availableTo.kind # "naive"}
    IN  \A id1 \in closed, id2 \in closed :
            \A c1 \in Credentials, c2 \in Credentials :
                /\ Evaluate(id1, c1) = "NotAvailable"
                /\ Evaluate(id1, c1) = Evaluate(id2, c2)

-----------------------------------------------------------------------------
(* Deleting share records: delete_file. *)

\* The ids a delete request may name: every id upload_file can issue and
\* one it never issued.
FileIds == {FileNames[i] : i \in 1..MaxFiles} \cup {UnknownFile}

\* A variant of the owner check that lets every logged-in caller pass.
NotOwner_anyone(file_to_delete, user) == FALSE

\* file_to_delete.get("ownerEmail") != user["email"]
NotOwner(file_to_delete, user) == file_to_delete.ownerEmail # user

\* DELETE /api/files/<file_id>.  The response carries the id in its token
\* field.
delete_file(bearer, file_id) ==
    LET user == get_current_user(bearer)
        Answer(status, msg) ==
            response' = Resp("delete_file", status, msg, file_id, user, bearer)
    IN
    /\ UNCHANGED <<users, sessions, totp_temp_sessions, policy, minted, now,
                   inflight, uploads>>
    /\ IF Falsy(user)
       THEN Answer(401, "Unauthorized") /\ UNCHANGED files
       ELSE IF ~Has(files, file_id)
       THEN Answer(404, "File not found") /\ UNCHANGED files
       ELSE IF NotOwner(Get(files, file_id), user)
       THEN Answer(403, "Forbidden") /\ UNCHANGED files
       ELSE /\ files' = Del(files, file_id)
            /\ Answer(200, "File deleted successfully")

\* An upload of one small public file without password, window or second
\* factor.
PlainUpload(bearer) ==
    upload_file(bearer, [present |-> TRUE, size |-> 1], TRUE, None, NoDate,
                NoDate, {}, FALSE, TRUE)

\* Two users logging in, uploading (logged in or not) and deleting.
NextDelete ==
    \/ login(Jitensha, "jitensha@123")
    \/ login(Bigbluewhale, "bigbluewhale@123")
    \/ \E bearer \in TokenBearers : PlainUpload(bearer)
    \/ \E bearer \in TokenBearers, file_id \in FileIds :
          delete_file(bearer, file_id)

SpecDelete == Init /\ [][NextDelete]_vars

\* C22: delete_file removes a record only for its owner: without a valid
\* token the answer is 401, for an unknown id 404, for a logged-in caller
\* who is not the owner 403, each with files unchanged; for the owner the
\* answer is 200, the record is gone, every other record is as it was, and
\* the same request repeated would find no record (404).
C22_DeleteOnlyByOwner ==
    [][ \A b \in TokenBearers, id \in FileIds :
          (/\ response'.op = "delete_file"
           /\ response'.token = id
           /\ response'.bearer = b
           /\ delete_file(b, id))
          => LET u == get_current_user(b)
             IN  /\ u = None
                    => response'.status = 401 /\ files' = files
                 /\ (u # None /\ ~Has(files, id))
                    => response'.status = 404 /\ files' = files
                 /\ (u # None /\ Has(files, id) /\ files[id].ownerEmail # u)
                    => response'.status = 403 /\ files' = files
                 /\ (u # None /\ Has(files, id) /\ files[id].ownerEmail = u)
                    => /\ response'.status = 200
                       /\ DOMAIN files' = DOMAIN files \ {id}
                       /\ \A other \in DOMAIN files' :
                              files'[other] = files[other]
                       /\ get_current_user(b)' = u
                       /\ ~Has(files', id)
      ]_vars

\* The owner has deleted one of two records; the other one is still stored.
C22_Witness ==
    /\ response.op = "delete_file"
    /\ response.status = 200
    /\ ~Has(files, response.token)
    /\ \E other \in DOMAIN files : files[other].ownerEmail # response.who

-----------------------------------------------------------------------------
(* Share records under every operation. *)

\* One user going through every operation of the server with the first
\* token they are given, with uploads of different shares and deletions in
\* between.
NextFrame ==
    \/ login(Jitensha, "jitensha@123")
    \/ \E bearer \in {TokenNames[1]} :
          \/ totp_setup(bearer)
          \/ totp_verify(bearer, MOCK_TOTP_CODE)
          \/ totp_disable(bearer, MOCK_TOTP_CODE)
          \/ logout(bearer)
          \/ change_password(bearer, "jitensha@123", None, "newpass1")
          \/ get_user_files(bearer, "all")
          \/ PlainUpload(bearer)
    \/ update_policy([maxFileSizeMB |-> 1])
    \/ upload_file(None, [present |-> TRUE, size |-> 1], FALSE, "sharepw1",
                   IsoText("offset", 1), IsoText("offset", 2), {Eenose}, TRUE,
                   TRUE)
    \/ \E file_id \in FileIds : delete_file(TokenNames[1], file_id)

SpecFrame == Init /\ [][NextFrame]_vars

\* C23: a share record is immutable from its creation by upload_file to
\* its deletion by delete_file: no step changes a field of a record that
\* stays stored, only delete_file removes a record, and only a successful
\* upload_file adds one, under an id that no stored record has.
C23_RecordsAreImmutable ==
    [][ /\ \A id \in DOMAIN files \cap DOMAIN files' :
               files'[id] = files[id]
        /\ DOMAIN files' # DOMAIN files
           => \/ /\ response'.op = "delete_file"
                 /\ response'.status = 200
                 /\ DOMAIN files' = DOMAIN files \ {response'.token}
              \/ /\ response'.op = "upload_file"
                 /\ response'.status = 200
                 /\ response'.token \notin DOMAIN files
                 /\ DOMAIN files' = DOMAIN files \cup {response'.token}
        /\ uploads' # uploads
           => /\ response'.op = "upload_file"
              /\ response'.token \notin DOMAIN files
              /\ DOMAIN files' = DOMAIN files \cup {response'.token}
              /\ \A id \in DOMAIN files : files[id].id # response'.token
      ]_vars

\* A second share was stored after a password change while the first one
\* was there.
C23_Witness ==
    /\ response.op = "upload_file"
    /\ response.status = 200
    /\ Cardinality(DOMAIN files) = 2
    /\ users[Jitensha].password = "newpass1"

-----------------------------------------------------------------------------
(* Registration. *)

\* Registrations for seeded, new and missing emails, and logins of the
\* seeded and the new users.
NextRegister ==
    \/ \E email \in Emails, password \in {"newpass1", None} :
          register(email, password)
    \/ \E email \in Emails \ {None},
          password \in {"jitensha@123", "eenose@123", "newpass1"} :
          login(email, password)
    \/ login_totp(Eenose, MOCK_TOTP_CODE)
    \/ \E bearer \in Tokens : totp_setup(bearer)

SpecRegister == Init /\ [][NextRegister]_vars

\* C24: email is a unique key for users: register for an email that exists
\* answers 400 and leaves users as it was; a register that succeeds adds
\* exactly one user, with the given password, role user, second factor
\* disabled and no secret, and leaves every other user as it was; and no
\* register creates a session or a pending challenge.
C24_RegisterKeepsEmailsUnique ==
    [][ \A e \in Emails, p \in {"newpass1", None} :
          (/\ response'.op = "register"
           /\ response'.who = e
           /\ register(e, p))
          => /\ sessions' = sessions
             /\ totp_temp_sessions' = totp_temp_sessions
             /\ Has(users, e) => (response'.status = 400 /\ users' = users)
             /\ response'.status # 201 => users' = users
             /\ response'.status = 201
                => /\ ~Has(users, e)
                   /\ DOMAIN users' = DOMAIN users \cup {e}
                   /\ \A other \in DOMAIN users : users'[other] = users[other]
                   /\ users'[e] = [password |-> p, role |-> "user",
                                   totp_enabled |-> FALSE,
                                   totp_secret |-> None]
      ]_vars

\* A registered user who stored a secret registers again and is refused.
C24_Witness ==
    /\ response.op = "register"
    /\ response.status = 400
    /\ response.who = Nobody
    /\ Has(users, Nobody)
    /\ users[Nobody].totp_secret # None

-----------------------------------------------------------------------------
(* Pending challenges and the second-factor switch. *)

\* C25: a pending second-factor challenge exists only for a user whose
\* second factor is switched on at that moment, so login_totp never mints a
\* session for a user whose second factor is off when it runs.
C25_ChallengeOnlyForEnabledUser ==
    [][ /\ \A key \in DOMAIN totp_temp_sessions' :
               users'[totp_temp_sessions'[key]].totp_enabled
        /\ \A email \in DOMAIN users, code \in Codes :
               (/\ response'.op = "login_totp"
                /\ response'.status = 200
                /\ login_totp(email, code))
               => users[email].totp_enabled
      ]_vars

-----------------------------------------------------------------------------
(* Owners of share records. *)

-----------------------------------------------------------------------------
(* delete_file statement by statement: the requests of the threaded server
   share files without a lock, and a thread switch can fall between the
   membership test, the read and the del. *)

\* delete_file, lines 703-708: get_current_user, then file_id not in files.
delete_file_check(r, bearer, file_id) ==
    LET user == get_current_user(bearer)
        req == [inflight[r] EXCEPT !.email = user, !.file_id = file_id]
    IN
    /\ inflight[r].pc = "idle"
    /\ UNCHANGED <<users, sessions, totp_temp_sessions, files, policy, minted,
                   now, response, uploads>>
    /\ IF Falsy(user)
       THEN inflight' = [inflight EXCEPT
                ![r] = Answered(req, 401, "Unauthorized")]
       ELSE IF ~Has(files, file_id)
       THEN inflight' = [inflight EXCEPT
                ![r] = Answered(req, 404, "File not found")]
       ELSE inflight' = [inflight EXCEPT ![r] = [req EXCEPT !.pc = "read"]]

\* delete_file, lines 710-713: file_to_delete = files[file_id], which
\* raises KeyError when the key is gone, then the owner check.
delete_file_read(r) ==
    LET req == inflight[r] IN
    /\ req.pc = "read"
    /\ UNCHANGED <<users, sessions, totp_temp_sessions, files, policy, minted,
                   now, response, uploads>>
    /\ IF ~Has(files, req.file_id)
       THEN inflight' = [inflight EXCEPT
                ![r] = Answered(req, 500, "Internal Server Error")]
       ELSE IF NotOwner(Get(files, req.file_id), req.email)
       THEN inflight' = [inflight EXCEPT
                ![r] = Answered(req, 403, "Forbidden")]
       ELSE inflight' = [inflight EXCEPT ![r].pc = "remove"]

\* delete_file, lines 716-718: del files[file_id], which raises KeyError
\* when the key is gone, and the answer.  Nothing catches the KeyError; the
\* request ends as a 500.
delete_file_remove(r) ==
    LET req == inflight[r] IN
    /\ req.pc = "remove"
    /\ UNCHANGED <<users, sessions, totp_temp_sessions, policy, minted, now,
                   response, uploads>>
    /\ IF Has(files, req.file_id)
       THEN /\ files' = Del(files, req.file_id)
            /\ inflight' = [inflight EXCEPT
                   ![r] = Answered(req, 200, "File deleted successfully")]
       ELSE /\ UNCHANGED files
            /\ inflight' = [inflight EXCEPT
                   ![r] = Answered(req, 500, "Internal Server Error")]

\* Two delete_file requests served at the same time, after logins and
\* uploads.
NextDeleteRace ==
    \/ login(Jitensha, "jitensha@123")
    \/ \E bearer \in TokenBearers : PlainUpload(bearer)
    \/ \E r \in Requests, bearer \in TokenBearers, file_id \in FileIds :
          delete_file_check(r, bearer, file_id)
    \/ \E r \in Requests : delete_file_read(r)
    \/ \E r \in Requests : delete_file_remove(r)

SpecDeleteRace == Init /\ [][NextDeleteRace]_vars

\* C27: two delete_file requests of the owner for one file id behave as if
\* served one after the other: a request that passed the existence check
\* still finds the record until it removes it, no request ends in an
\* unhandled failure (status 500), at most one of the two is answered 200,
\* and after a 200 the record is absent.
C27_ConcurrentDeletesAreAtomic ==
    /\ \A r \in Requests :
           inflight[r].pc \in {"read", "remove"}
               => Has(files, inflight[r].file_id)
    /\ \A r \in Requests : inflight[r].status # 500
    /\ \A r, q \in Requests :
           /\ r # q
           /\ inflight[r].file_id = inflight[q].file_id
           /\ inflight[r].status = 200
           => inflight[q].status # 200
    /\ \A r \in Requests :
           inflight[r].status = 200 => ~Has(files, inflight[r].file_id)

-----------------------------------------------------------------------------
(* Availability windows of stored records. *)

\* The date fields of SpecWindow: absent, unparsable, ending in Z, with an
\* offset at every instant, and one without offset.
WindowDates ==
    {NoDate, BadDate, IsoText("zulu", 1), IsoText("naive", 1)}
    \cup {IsoText("offset", t) : t \in Times}

\* Uploads with every pair of date fields, on both interpreters.
NextWindow ==
    \E available_from_raw \in WindowDates, available_to_raw \in WindowDates :
        \E accepts_z \in Interpreters(available_from_raw, available_to_raw) :
            upload_file(None, [present |-> TRUE, size |-> 1], TRUE, None,
                        available_from_raw, available_to_raw, {}, FALSE,
                        accepts_z)

SpecWindow == Init /\ [][NextWindow]_vars

\* C28: every stored share record that has both availableFrom and
\* availableTo has availableFrom strictly earlier than availableTo: an
\* upload whose availableFrom is not earlier than its availableTo, or with
\* a date that does not parse, is answered 400 and stores no record.
C28_StoredWindowIsNonEmpty ==
    [][ /\ \A id \in DOMAIN files' :
               (files'[id].availableFrom # NoDate
                /\ files'[id].availableTo # NoDate)
               => /\ files'[id].availableFrom.kind = files'[id].availableTo.kind
                  /\ files'[id].availableFrom.t < files'[id].availableTo.t
        /\ \A from \in WindowDates, to \in WindowDates, z \in BOOLEAN :
               LET Unparsable(text) ==
                       text.kind = "bad" \/ (text.kind = "zulu" /\ ~z)
               IN  ~ /\ response'.op = "upload_file"
                     /\ response'.status # 400 \/ files' # files
                     /\ \/ Unparsable(from)
                        \/ Unparsable(to)
                        \/ from # NoDate /\ to # NoDate /\ from.t >= to.t
                     /\ upload_file(None, [present |-> TRUE, size |-> 1],
                                    TRUE, None, from, to, {}, FALSE, z)
      ]_vars

\* An upload with an empty window was refused after one with a window of
\* one instant's length was stored.
C28_Witness ==
    /\ response.op = "upload_file"
    /\ response.status = 400
    /\ response.msg = "availableFrom must be earlier than availableTo"
    /\ \E id \in DOMAIN files :
           /\ files[id].availableFrom # NoDate
           /\ files[id].availableTo # NoDate
           /\ files[id].availableTo.t = files[id].availableFrom.t + 1

-----------------------------------------------------------------------------
(* The frame of logout and login. *)

\* C29: logout removes exactly the presented token: every other entry of
\* sessions is unchanged and still validates, and users,
\* totp_temp_sessions and files are unchanged; and login removes or changes
\* no token issued earlier.
C29_LogoutRemovesOnlyPresentedToken ==
    [][ /\ \A b \in Bearers :
               (response'.op = "logout" /\ logout(b))
               => /\ users' = users
                  /\ totp_temp_sessions' = totp_temp_sessions
                  /\ files' = files
                  /\ DOMAIN sessions' \subseteq DOMAIN sessions
                  /\ response'.status = 200 => ~Has(sessions', b)
                  /\ \A t \in DOMAIN sessions \ {b} :
                         /\ Has(sessions', t)
                         /\ sessions'[t] = sessions[t]
                         /\ get_current_user(t)' = get_current_user(t)
                         /\ get_current_user(t)' # None
        /\ \A e \in Emails, p \in Passwords :
               (response'.op = "login" /\ response'.who = e /\ login(e, p))
               => \A t \in DOMAIN sessions :
                      /\ Has(sessions', t)
                      /\ sessions'[t] = sessions[t]
                      /\ get_current_user(t)' = get_current_user(t)
      ]_vars

\* A user with two tokens has logged out with one; the other is still in
\* sessions.
C29_Witness ==
    /\ response.op = "logout"
    /\ response.status = 200
    /\ \E t \in DOMAIN sessions : sessions[t] = response.who

====
